---- MODULE Spec2Model ----
(***************************************************************************)
(* Model of the sqlxmigrate migration engine (package sqlxmigrate).        *)
(*                                                                         *)
(* The engine (type Sqlxmigrate) holds a catalog of migrations, an         *)
(* optional initSchema function and, during one top-level call, an open    *)
(* transaction g.tx.  The database is modelled by what the engine can      *)
(* observe or change in it:                                                *)
(*   tableExists  the migrations table exists                              *)
(*   hist         the committed rows of the migrations table (ids)         *)
(*   eff          the ids of the steps whose forward effect is committed   *)
(* Statements sent through g.db (HasTable, CREATE TABLE, the SELECT        *)
(* count(0) probes, INSERT, the initSchema function) run on their own      *)
(* connection in autocommit mode: they see and change committed state      *)
(* only.  Statements sent through g.tx (the Migrate and Rollback functions *)
(* of a step, DELETE) are pending until g.tx.Commit() and discarded by     *)
(* g.tx.Rollback().  A call runs to completion on the calling thread, so   *)
(* each top-level method is one action.                                    *)
(*                                                                         *)
(* The database is one with transactional DDL and READ COMMITTED reads     *)
(* (PostgreSQL, the database the README names as supported).  The          *)
(* environment can make a step's Migrate or Rollback function, the         *)
(* initSchema function or an INSERT fail; failures of Begin, Commit and    *)
(* of the probes on an existing table are not modelled.                    *)
(***************************************************************************)
EXTENDS Integers, Sequences, FiniteSets, TLC

\* ---------------------------------------------------------------- bounds

\* Longest catalog (number of migrations handed to New).
MaxSteps == 3
\* Most steps of a catalog whose Rollback is nil.
MaxNoRollback == 1

\* ------------------------------------------------------------- constants

initSchemaMigrationID == "SCHEMA_INIT"

\* Identifiers of ordinary steps.  The engine only compares identifiers for
\* equality, so catalogs are enumerated up to renaming: the k-th distinct
\* ordinary identifier of a catalog is OrdinaryIDs[k].
OrdinaryIDs == <<"A", "B", "C", "D", "E", "F">>

\* An identifier no catalog uses (an unknown target, a step outside the catalog).
ForeignID == "X"

VARIABLES
    catalog,      \* g.migrations: sequence of [ID, hasRollback]
    initSchema,   \* g.initSchema != nil
    tx,           \* g.tx: "nil" or "open"
    tableExists,  \* database: the migrations table exists
    hist,         \* database: committed rows of the migrations table
    eff,          \* database: ids whose forward effect is committed
    last,         \* what the call that just returned did (NewRecord between calls)
    everRecorded, \* some row was committed to the migrations table at some time
    streak        \* RollbackLast calls made since the last successful Migrate
                  \* with nothing else in between (-1: not in such a run)

vars == <<catalog, initSchema, tx, tableExists, hist, eff, last, everRecorded, streak>>

\* ------------------------------------------------------------- the catalog

N == Len(catalog)

IDsOf(c) == {c[i].ID : i \in 1..Len(c)}

SpecialIDs == {"", initSchemaMigrationID}

StepIDs == {OrdinaryIDs[k] : k \in 1..MaxSteps} \cup SpecialIDs

Migration == [ID : StepIDs, hasRollback : BOOLEAN]

\* Ordinary identifiers appear in first-use order A, B, C, ...
Canonical(c) ==
    \A i \in 1..Len(c) :
        c[i].ID \notin SpecialIDs =>
            LET earlier == {c[j].ID : j \in 1..(i-1)} \ SpecialIDs
            IN  c[i].ID \in earlier \cup {OrdinaryIDs[Cardinality(earlier) + 1]}

Catalogs ==
    {c \in UNION {[1..n -> Migration] : n \in 0..MaxSteps} :
        /\ Canonical(c)
        /\ Cardinality({i \in 1..Len(c) : ~c[i].hasRollback}) <= MaxNoRollback}

\* A step that is not part of the catalog, for RollbackMigration.
ForeignStep == [ID |-> ForeignID, hasRollback |-> TRUE]

\* ------------------------------------------------------ faults of a call

\* What the environment makes fail during one call: the forward action of
\* step `at` (and, with comp, the compensating Rollback after it), the
\* inverse action of step `at`, the INSERT for step `at` (0: the
\* SCHEMA_INIT row), or the initSchema function.
NoFault == [kind |-> "none", at |-> 0, comp |-> FALSE]

\* The faults that can strike a forward call, and a rollback call.
ForwardFaults ==
    {NoFault}
    \cup [kind : {"migrate"}, at : 1..N, comp : BOOLEAN]
    \cup [kind : {"insert"}, at : 0..N, comp : {FALSE}]
    \cup [kind : {"init"}, at : {0}, comp : {FALSE}]

\* A rollback call with the inverse action of step i failing (or no fault).
RollbackFaults(steps) ==
    {NoFault} \cup [kind : {"rollback"}, at : steps, comp : {FALSE}]

\* ------------------------------------------------- the state of one call

\* The running state of one top-level call: the engine's g.tx, the database
\* as committed (table, hist, eff), what is pending in the open transaction
\* (txEff: the effects as the transaction sees them, txDel: rows it
\* deleted), and the log of what the call did.
Call(op, arg) ==
    [op |-> op, arg |-> arg, err |-> "nil", errID |-> "",
     tx |-> tx, began |-> FALSE, committed |-> FALSE,
     table |-> tableExists, hist |-> hist, eff |-> eff,
     txEff |-> eff, txDel |-> {},
     init |-> FALSE, fwd |-> <<>>, inv |-> <<>>, comp |-> <<>>,
     compFailed |-> FALSE, rec |-> <<>>]

Fail(r, e) == [r EXCEPT !.err = e]

\* ------------------------------------------------------------ transaction

begin(r) == [r EXCEPT !.tx = "open", !.began = TRUE, !.txEff = r.eff, !.txDel = {}]

commit(r) ==
    [r EXCEPT !.tx = "nil", !.committed = TRUE,
              !.eff = r.txEff, !.hist = r.hist \ r.txDel, !.txDel = {}]

\* rollback that discards the transaction's work but leaves g.tx set.
rollback_LeavesTx(r) == [r EXCEPT !.txEff = r.eff, !.txDel = {}]

\* rollback keeping what the transaction did (a commit in its place).
rollback_Keeps(r) ==
    IF r.tx # "nil"
    THEN [r EXCEPT !.tx = "nil", !.eff = r.txEff,
                   !.hist = r.hist \ r.txDel, !.txDel = {}]
    ELSE r

rollback(r) ==
    IF r.tx # "nil"
    THEN [r EXCEPT !.tx = "nil", !.txEff = r.eff, !.txDel = {}]
    ELSE r

\* ---------------------------------------------------------- history table

HasTable(r) == r.table

createMigrationTableIfNotExists(r) ==
    IF HasTable(r) THEN r ELSE [r EXCEPT !.table = TRUE]

\* SELECT count(0) ... WHERE id = ? through g.db: the committed rows.
migrationRan(r, id) == id \in r.hist

\* canInitializeSchema looking for the rows of catalog steps only.
canInitializeSchema_NoCatalogRow(r) ==
    \A i \in 1..N : ~migrationRan(r, catalog[i].ID)

\* canInitializeSchema without the count of all rows.
canInitializeSchema_OnlyInitRow(r) ==
    ~migrationRan(r, initSchemaMigrationID)

canInitializeSchema(r) ==
    IF migrationRan(r, initSchemaMigrationID) THEN FALSE
    ELSE Cardinality(r.hist) = 0

\* INSERT through g.db: committed at once.  i is the step's position (0 for
\* the SCHEMA_INIT row), used only to place the environment's fault.
insertMigration(r, id, i, f) ==
    IF (f.kind = "insert" /\ f.at = i) \/ ~r.table \/ id \in r.hist
    THEN Fail(r, "InsertFailed")
    ELSE [r EXCEPT !.hist = @ \cup {id}, !.rec = Append(@, id)]

\* ------------------------------------------------------------- validation

\* hasMigrations looking at the catalog only.
hasMigrations_CatalogOnly == Len(catalog) > 0

hasMigrations == initSchema \/ Len(catalog) > 0

\* checkReservedID looking at the first step only.
checkReservedID_FirstOnly(r) ==
    IF N > 0 /\ catalog[1].ID = initSchemaMigrationID
    THEN [r EXCEPT !.err = "ReservedIDError", !.errID = initSchemaMigrationID]
    ELSE r

checkReservedID(r) ==
    IF \E i \in 1..N : catalog[i].ID = initSchemaMigrationID
    THEN [r EXCEPT !.err = "ReservedIDError", !.errID = initSchemaMigrationID]
    ELSE r

\* The first position whose identifier was already seen by the scan.
FirstDuplicate ==
    LET dups == {j \in 1..N : \E i \in 1..(j-1) : catalog[i].ID = catalog[j].ID}
    IN  IF dups = {} THEN 0 ELSE CHOOSE j \in dups : \A k \in dups : j <= k

\* checkDuplicatedID comparing each step with the step before it only.
checkDuplicatedID_AdjacentOnly(r) ==
    LET dups == {j \in 2..N : catalog[j - 1].ID = catalog[j].ID}
    IN  IF dups = {} THEN r
        ELSE [r EXCEPT !.err = "DuplicatedIDError",
                       !.errID = catalog[CHOOSE j \in dups : \A k \in dups : j <= k].ID]

checkDuplicatedID(r) ==
    IF FirstDuplicate # 0
    THEN [r EXCEPT !.err = "DuplicatedIDError", !.errID = catalog[FirstDuplicate].ID]
    ELSE r

\* checkIDExist letting the empty target (migrate's "no target") through.
checkIDExist_EmptyAllowed(r, migrationID) ==
    IF migrationID = "" \/ \E i \in 1..N : catalog[i].ID = migrationID
    THEN r
    ELSE Fail(r, "ErrMigrationIDDoesNotExist")

checkIDExist(r, migrationID) ==
    IF \E i \in 1..N : catalog[i].ID = migrationID
    THEN r
    ELSE Fail(r, "ErrMigrationIDDoesNotExist")

\* ------------------------------------------------------ forward application

\* migrateFailed returning the error of the compensating Rollback when it fails.
migrateFailed_ReturnsRollbackError(r, i, f) ==
    LET r1 == [r EXCEPT !.fwd = Append(@, i), !.txEff = @ \cup {catalog[i].ID}]
    IN  IF ~catalog[i].hasRollback
        THEN Fail(r1, "panic")
        ELSE [r1 EXCEPT !.comp = Append(@, i), !.compFailed = f.comp,
                        !.txEff = IF f.comp THEN @ ELSE @ \ {catalog[i].ID},
                        !.err = IF f.comp THEN "RollbackFailed" ELSE "MigrateFailed"]

\* The forward action of step i failed: it may have changed the database
\* inside the transaction before failing; the compensating Rollback is then
\* called, and calling a nil Rollback panics.
migrateFailed(r, i, f) ==
    LET r1 == [r EXCEPT !.fwd = Append(@, i), !.txEff = @ \cup {catalog[i].ID}]
    IN  IF ~catalog[i].hasRollback
        THEN Fail(r1, "panic")
        ELSE [r1 EXCEPT !.comp = Append(@, i), !.compFailed = f.comp,
                        !.txEff = IF f.comp THEN @ ELSE @ \ {catalog[i].ID},
                        !.err = "MigrateFailed"]

\* runMigration without the "already ran" test.
runMigration_NoSkip(r, i, f) ==
    IF catalog[i].ID = "" THEN Fail(r, "ErrMissingID")
    ELSE IF ~r.table THEN Fail(r, "QueryFailed")
    ELSE IF f.kind = "migrate" /\ f.at = i THEN migrateFailed(r, i, f)
    ELSE [r EXCEPT !.fwd = Append(@, i), !.txEff = @ \cup {catalog[i].ID},
                   !.hist = @ \cup {catalog[i].ID}, !.rec = Append(@, catalog[i].ID)]

\* runMigration inserting the row before it runs the forward action.
runMigration_InsertFirst(r, i, f) ==
    IF catalog[i].ID = "" THEN Fail(r, "ErrMissingID")
    ELSE IF ~r.table THEN Fail(r, "QueryFailed")
    ELSE IF migrationRan(r, catalog[i].ID) THEN r
    ELSE LET r1 == insertMigration(r, catalog[i].ID, i, f)
         IN  IF r1.err # "nil" THEN r1
             ELSE IF f.kind = "migrate" /\ f.at = i THEN migrateFailed(r1, i, f)
             ELSE [r1 EXCEPT !.fwd = Append(@, i), !.txEff = @ \cup {catalog[i].ID}]

runMigration(r, i, f) ==
    IF catalog[i].ID = "" THEN Fail(r, "ErrMissingID")
    ELSE IF ~r.table THEN Fail(r, "QueryFailed")
    ELSE IF migrationRan(r, catalog[i].ID) THEN r
    ELSE IF f.kind = "migrate" /\ f.at = i THEN migrateFailed(r, i, f)
    ELSE insertMigration(
             [r EXCEPT !.fwd = Append(@, i), !.txEff = @ \cup {catalog[i].ID}],
             catalog[i].ID, i, f)

\* The loop of migrate walking the catalog from its end.
RECURSIVE rangeMigrations_Reversed(_, _, _, _)
rangeMigrations_Reversed(r, i, migrationID, f) ==
    IF i > N THEN r
    ELSE LET r1 == runMigration(r, N + 1 - i, f)
         IN  IF r1.err # "nil" THEN r1
             ELSE IF migrationID # "" /\ catalog[N + 1 - i].ID = migrationID THEN r1
             ELSE rangeMigrations_Reversed(r1, i + 1, migrationID, f)

\* The loop of migrate stopping in front of the target.
RECURSIVE rangeMigrations_Exclusive(_, _, _, _)
rangeMigrations_Exclusive(r, i, migrationID, f) ==
    IF i > N THEN r
    ELSE IF migrationID # "" /\ catalog[i].ID = migrationID THEN r
    ELSE LET r1 == runMigration(r, i, f)
         IN  IF r1.err # "nil" THEN r1
             ELSE rangeMigrations_Exclusive(r1, i + 1, migrationID, f)

\* The loop of migrate without its break at the target.
RECURSIVE rangeMigrations_NoBreak(_, _, _, _)
rangeMigrations_NoBreak(r, i, migrationID, f) ==
    IF i > N THEN r
    ELSE LET r1 == runMigration(r, i, f)
         IN  IF r1.err # "nil" THEN r1
             ELSE rangeMigrations_NoBreak(r1, i + 1, migrationID, f)

\* for _, migration := range g.migrations { ... } of migrate, from position i.
RECURSIVE rangeMigrations(_, _, _, _)
rangeMigrations(r, i, migrationID, f) ==
    IF i > N THEN r
    ELSE LET r1 == runMigration(r, i, f)
         IN  IF r1.err # "nil" THEN r1
             ELSE IF migrationID # "" /\ catalog[i].ID = migrationID THEN r1
             ELSE rangeMigrations(r1, i + 1, migrationID, f)

\* for _, migration := range g.migrations { ... } of runInitSchema.
RECURSIVE rangeInitMigrations(_, _, _)
rangeInitMigrations(r, i, f) ==
    IF i > N THEN r
    ELSE LET r1 == runMigration(r, i, f)
         IN  IF r1.err # "nil" THEN r1
             ELSE rangeInitMigrations(r1, i + 1, f)

\* g.initSchema(g.db) runs outside the transaction.
runInitSchema(r, f) ==
    IF f.kind = "init" THEN Fail([r EXCEPT !.init = TRUE], "InitFailed")
    ELSE LET r1 == insertMigration([r EXCEPT !.init = TRUE],
                                   initSchemaMigrationID, 0, f)
         IN  IF r1.err # "nil" THEN r1
             ELSE rangeInitMigrations(r1, 1, f)

\* migrate stopping at the target on the bootstrap path too.
migrateBody_TargetOnInit(r, migrationID, f) ==
    LET r1 == createMigrationTableIfNotExists(r)
    IN  IF initSchema /\ canInitializeSchema(r1)
        THEN LET r2 == insertMigration([r1 EXCEPT !.init = TRUE],
                                       initSchemaMigrationID, 0, f)
                 r3 == IF r2.err # "nil" THEN r2
                       ELSE rangeMigrations(r2, 1, migrationID, f)
             IN  IF r3.err # "nil" THEN r3 ELSE commit(r3)
        ELSE LET r2 == rangeMigrations(r1, 1, migrationID, f)
             IN  IF r2.err # "nil" THEN r2 ELSE commit(r2)

\* The body of migrate after begin(), up to its return.
migrateBody(r, migrationID, f) ==
    LET r1 == createMigrationTableIfNotExists(r)
    IN  IF initSchema /\ canInitializeSchema(r1)
        THEN LET r2 == runInitSchema(r1, f)
             IN  IF r2.err # "nil" THEN r2 ELSE commit(r2)
        ELSE LET r2 == rangeMigrations(r1, 1, migrationID, f)
             IN  IF r2.err # "nil" THEN r2 ELSE commit(r2)

migrate(r, migrationID, f) ==
    IF ~hasMigrations THEN Fail(r, "ErrNoMigrationDefined")
    ELSE IF checkReservedID(r).err # "nil" THEN checkReservedID(r)
    ELSE IF checkDuplicatedID(r).err # "nil" THEN checkDuplicatedID(r)
    ELSE rollback(migrateBody(begin(r), migrationID, f))

\* ---------------------------------------------------------------- rollback

\* rollbackMigration deleting the row of a step whose Rollback is nil.
rollbackMigration_DeleteAnyway(r, m, i, f) ==
    IF ~m.hasRollback
    THEN IF ~r.table THEN Fail(r, "ExecFailed")
         ELSE [r EXCEPT !.txDel = @ \cup {m.ID}]
    ELSE IF f.kind = "rollback" /\ f.at = i
    THEN Fail([r EXCEPT !.inv = Append(@, i)], "RollbackFailed")
    ELSE LET r1 == [r EXCEPT !.inv = Append(@, i), !.txEff = @ \ {m.ID}]
         IN  IF ~r1.table THEN Fail(r1, "ExecFailed")
             ELSE [r1 EXCEPT !.txDel = @ \cup {m.ID}]

\* m is the step, i its position (0 for a step outside the catalog).
rollbackMigration(r, m, i, f) ==
    IF ~m.hasRollback THEN Fail(r, "ErrRollbackImpossible")
    ELSE IF f.kind = "rollback" /\ f.at = i
    THEN Fail([r EXCEPT !.inv = Append(@, i)], "RollbackFailed")
    ELSE LET r1 == [r EXCEPT !.inv = Append(@, i), !.txEff = @ \ {m.ID}]
         IN  IF ~r1.table THEN Fail(r1, "ExecFailed")
             ELSE [r1 EXCEPT !.txDel = @ \cup {m.ID}]

\* getLastRunMigration returning the first step recorded as run.
getLastRunMigration_First(r, i) ==
    LET ran == {j \in 1..i : migrationRan(r, catalog[j].ID)}
    IN  IF ran = {} THEN 0 ELSE CHOOSE j \in ran : \A k \in ran : j <= k

\* The position of the last step recorded as run, 0 if none.
RECURSIVE getLastRunMigration(_, _)
getLastRunMigration(r, i) ==
    IF i < 1 THEN 0
    ELSE IF migrationRan(r, catalog[i].ID) THEN i
    ELSE getLastRunMigration(r, i - 1)

\* The loop of RollbackTo undoing the target step as well.
RECURSIVE rollbackToLoop_Inclusive(_, _, _, _)
rollbackToLoop_Inclusive(r, i, migrationID, f) ==
    IF i < 1 THEN r
    ELSE IF ~r.table THEN Fail(r, "QueryFailed")
    ELSE LET r1 == IF migrationRan(r, catalog[i].ID)
                   THEN rollbackMigration(r, catalog[i], i, f)
                   ELSE r
         IN  IF r1.err # "nil" \/ catalog[i].ID = migrationID THEN r1
             ELSE rollbackToLoop_Inclusive(r1, i - 1, migrationID, f)

\* for i := len(g.migrations) - 1; i >= 0; i-- { ... } of RollbackTo, from
\* position i down.
RECURSIVE rollbackToLoop(_, _, _, _)
rollbackToLoop(r, i, migrationID, f) ==
    IF i < 1 THEN r
    ELSE IF catalog[i].ID = migrationID THEN r
    ELSE IF ~r.table THEN Fail(r, "QueryFailed")
    ELSE IF migrationRan(r, catalog[i].ID)
    THEN LET r1 == rollbackMigration(r, catalog[i], i, f)
         IN  IF r1.err # "nil" THEN r1
             ELSE rollbackToLoop(r1, i - 1, migrationID, f)
    ELSE rollbackToLoop(r, i - 1, migrationID, f)

\* ------------------------------------------------------- top-level calls

Migrate(f) ==
    LET r == Call("Migrate", "")
    IN  IF ~hasMigrations THEN Fail(r, "ErrNoMigrationDefined")
        ELSE migrate(r, IF N > 0 THEN catalog[N].ID ELSE "", f)

MigrateTo(migrationID, f) ==
    LET r == checkIDExist(Call("MigrateTo", migrationID), migrationID)
    IN  IF r.err # "nil" THEN r ELSE migrate(r, migrationID, f)

\* RollbackLast undoing every step recorded as run.
RollbackLastBody_All(r, f) ==
    IF ~r.table THEN Fail(r, "QueryFailed")
    ELSE IF getLastRunMigration(r, N) = 0 THEN Fail(r, "ErrNoRunMigration")
    ELSE LET r1 == rollbackToLoop(r, N, ForeignID, f)
         IN  IF r1.err # "nil" THEN r1 ELSE commit(r1)

\* The body of RollbackLast after begin(), up to its return.
RollbackLastBody(r, f) ==
    IF ~r.table THEN Fail(r, "QueryFailed")
    ELSE LET i == getLastRunMigration(r, N)
         IN  IF i = 0 THEN Fail(r, "ErrNoRunMigration")
             ELSE LET r1 == rollbackMigration(r, catalog[i], i, f)
                  IN  IF r1.err # "nil" THEN r1 ELSE commit(r1)

RollbackLast(f) ==
    LET r == Call("RollbackLast", "")
    IN  IF N = 0 THEN Fail(r, "ErrNoMigrationDefined")
        ELSE rollback(RollbackLastBody(begin(r), f))

RollbackToBody(r, migrationID, f) ==
    LET r1 == rollbackToLoop(r, N, migrationID, f)
    IN  IF r1.err # "nil" THEN r1 ELSE commit(r1)

RollbackTo(migrationID, f) ==
    LET r == Call("RollbackTo", migrationID)
    IN  IF N = 0 THEN Fail(r, "ErrNoMigrationDefined")
        ELSE IF checkIDExist(r, migrationID).err # "nil" THEN checkIDExist(r, migrationID)
        ELSE rollback(RollbackToBody(begin(r), migrationID, f))

\* RollbackMigration undoing the step only when it is recorded as run.
RollbackMigrationBody_IfRan(r, m, i, f) ==
    IF ~r.table THEN Fail(r, "QueryFailed")
    ELSE IF ~migrationRan(r, m.ID) THEN commit(r)
    ELSE LET r1 == rollbackMigration(r, m, i, f)
         IN  IF r1.err # "nil" THEN r1 ELSE commit(r1)

\* The body of RollbackMigration after begin(), up to its return.
RollbackMigrationBody(r, m, i, f) ==
    LET r1 == rollbackMigration(r, m, i, f)
    IN  IF r1.err # "nil" THEN r1 ELSE commit(r1)

\* i = 0 rolls back ForeignStep, a step that is not in the catalog.
RollbackMigration(i, f) ==
    LET m == IF i = 0 THEN ForeignStep ELSE catalog[i]
    IN  rollback(RollbackMigrationBody(begin(Call("RollbackMigration", m.ID)), m, i, f))

\* ------------------------------------------------------------ the machine

Record(r) ==
    [op |-> r.op, arg |-> r.arg, err |-> r.err, errID |-> r.errID,
     began |-> r.began, committed |-> r.committed, init |-> r.init,
     fwd |-> r.fwd, inv |-> r.inv, comp |-> r.comp,
     compFailed |-> r.compFailed, rec |-> r.rec,
     hBefore |-> hist, effBefore |-> eff, tableBefore |-> tableExists,
     initSchemaSet |-> initSchema, everBefore |-> everRecorded,
     afterMigrate |-> (streak = 0)]

\* After New, and between two calls: no call is being reported.
NewRecord ==
    [op |-> "New", arg |-> "", err |-> "nil", errID |-> "",
     began |-> FALSE, committed |-> FALSE, init |-> FALSE,
     fwd |-> <<>>, inv |-> <<>>, comp |-> <<>>,
     compFailed |-> FALSE, rec |-> <<>>,
     hBefore |-> {}, effBefore |-> {}, tableBefore |-> FALSE,
     initSchemaSet |-> FALSE, everBefore |-> FALSE,
     afterMigrate |-> FALSE]

NextStreak(r) ==
    IF r.op = "Migrate" /\ r.err = "nil" THEN 0
    ELSE IF r.op = "RollbackLast" /\ streak >= 0 /\ streak < N /\ r.err # "RollbackFailed"
    THEN streak + 1
    ELSE -1

\* The call returns: the database is what the call left committed.
Return(call) ==
    \E r \in {call} :
    /\ tx' = r.tx
    /\ tableExists' = r.table
    /\ hist' = r.hist
    /\ eff' = r.eff
    /\ last' = Record(r)
    /\ everRecorded' = (everRecorded \/ r.hist # {})
    /\ streak' = NextStreak(r)
    /\ UNCHANGED <<catalog, initSchema>>

Init ==
    /\ catalog \in Catalogs
    /\ initSchema = FALSE
    /\ tx = "nil"
    /\ tableExists = FALSE
    /\ hist = {}
    /\ eff = {}
    /\ last = NewRecord
    /\ everRecorded = FALSE
    /\ streak = -1

DoInitSchema ==
    /\ last = NewRecord
    /\ initSchema' = TRUE
    /\ streak' = -1
    /\ UNCHANGED <<catalog, tx, tableExists, hist, eff, last, everRecorded>>

\* The caller has read the result of the call and goes on: the report of
\* the finished call is dropped, the engine and the database stay.
Resume ==
    /\ last # NewRecord
    /\ last' = NewRecord
    /\ UNCHANGED <<catalog, initSchema, tx, tableExists, hist, eff, everRecorded, streak>>

\* A call is made when no call is being reported.
Idle == last = NewRecord

DoMigrate == Idle /\ \E f \in ForwardFaults : Return(Migrate(f))

\* The targets a caller may name: every catalog identifier, the empty
\* string and an identifier that is not in the catalog.
Targets == IDsOf(catalog) \cup {"", ForeignID}

DoMigrateTo ==
    Idle /\ \E id \in Targets :
        \E f \in (IF id \in IDsOf(catalog) THEN ForwardFaults ELSE {NoFault}) :
            Return(MigrateTo(id, f))

DoRollbackLast == Idle /\ \E f \in RollbackFaults(1..N) : Return(RollbackLast(f))

DoRollbackTo ==
    Idle /\ \E id \in Targets :
        \E f \in (IF id \in IDsOf(catalog) THEN RollbackFaults(1..N) ELSE {NoFault}) :
            Return(RollbackTo(id, f))

DoRollbackMigration ==
    Idle /\ \E i \in 0..N : \E f \in RollbackFaults({i}) : Return(RollbackMigration(i, f))

Next ==
    \/ DoInitSchema
    \/ DoMigrate
    \/ DoMigrateTo
    \/ DoRollbackLast
    \/ DoRollbackTo
    \/ DoRollbackMigration
    \/ Resume

Spec == Init /\ [][Next]_vars

\* ================================================================ claims

ForwardOps == {"Migrate", "MigrateTo"}

CatalogIDs == IDsOf(catalog)

Increasing(q) == \A a, b \in 1..Len(q) : a < b => q[a] < q[b]

\* The position at which migrate stops for target id (0: id is not in the catalog).
TargetPos(id) ==
    IF id \in CatalogIDs
    THEN CHOOSE i \in 1..N : catalog[i].ID = id /\ \A j \in 1..(i-1) : catalog[j].ID # id
    ELSE 0

\* C1 (idempotence): a Migrate() made right after a successful Migrate() on
\* the same engine leaves the history as the first call left it and executes
\* no forward action.
C1_MigrateIdempotent ==
    (last.op = "Migrate" /\ last.afterMigrate) =>
        /\ hist = last.hBefore
        /\ last.fwd = <<>>
        /\ ~last.init

\* A second Migrate() in a row on a three-step catalog, all steps recorded.
C1_Witness ==
    /\ last.op = "Migrate" /\ last.afterMigrate /\ last.err = "nil"
    /\ N = 3 /\ CatalogIDs \subseteq hist

\* C2 (failure atomicity of forward application): when Migrate() or
\* MigrateTo(id) returns an execution-time error (missing identifier,
\* failing forward action, failing insert), the history after the call is
\* the history before the call.
C2_ForwardFailureAtomic ==
    (last.op \in ForwardOps /\ last.err \in {"ErrMissingID", "MigrateFailed", "InsertFailed"}) =>
        hist = last.hBefore

\* C3 (history/effect consistency): between top-level calls, a catalog
\* identifier is in the history exactly when its forward effect is
\* committed in the database.
C3_HistoryMatchesEffects ==
    \A i \in 1..N : (catalog[i].ID \in hist) <=> (catalog[i].ID \in eff)

\* C4 (ordering): within one Migrate()/MigrateTo(id) call the forward
\* actions run in catalog order, and no call changes the catalog.
C4_ForwardInCatalogOrder ==
    [][catalog' = catalog /\ (last'.op \in ForwardOps => Increasing(last'.fwd))]_vars

\* A forward call that ran the forward actions of three steps.
C4_Witness ==
    last.op \in ForwardOps /\ last.fwd = <<1, 2, 3>>

AllHaveRollback == \A i \in 1..N : catalog[i].hasRollback

\* C6 as claimed (symmetry): after a successful Migrate(), each of the N
\* following RollbackLast() calls succeeds and runs exactly the inverse of
\* the last step not yet undone, and after the N-th the history table is
\* empty.  (streak = k: the call reported is the k-th RollbackLast() since
\* that Migrate(), and no inverse action failed on the way.)
C6_Original_Symmetry ==
    (last.op = "RollbackLast" /\ streak >= 1) =>
        /\ last.err = "nil"
        /\ last.inv = <<N + 1 - streak>>
        /\ streak = N => hist = {}

\* C6 (symmetry, amended): for a catalog whose steps all have a Rollback,
\* after a successful Migrate() each of the N following RollbackLast()
\* calls succeeds and runs exactly the inverse of the last step not yet
\* undone, and after the N-th no catalog step is left in the history (the
\* SCHEMA_INIT row of a bootstrap stays).
C6_Symmetry ==
    (last.op = "RollbackLast" /\ streak >= 1 /\ AllHaveRollback) =>
        /\ last.err = "nil"
        /\ last.inv = <<N + 1 - streak>>
        /\ hist = last.hBefore \ {catalog[N + 1 - streak].ID}
        /\ streak = N => hist \cap CatalogIDs = {}

\* The third RollbackLast() after a bootstrapping Migrate() of three steps.
C6_Witness ==
    /\ last.op = "RollbackLast" /\ streak = 3 /\ N = 3 /\ AllHaveRollback
    /\ last.inv = <<1>> /\ hist = {initSchemaMigrationID}

\* C7 as claimed (bootstrap exclusivity): once any identifier has been
\* recorded in the history at some earlier time, Migrate() never invokes
\* the initSchema function.
C7_Original_NeverAfterAnyRecord ==
    (last.op = "Migrate" /\ last.everBefore) => ~last.init

\* C7 (bootstrap exclusivity, amended): when the history holds any row (a
\* catalog step or SCHEMA_INIT) at the time of the call, Migrate() does
\* not invoke the initSchema function.
C7_NotWhileAnyRecord ==
    (last.op = "Migrate" /\ last.hBefore # {}) => ~last.init

\* Migrate() with initSchema registered on a history holding step rows only.
C7_Witness ==
    /\ last.op = "Migrate" /\ last.initSchemaSet /\ last.err = "nil"
    /\ initSchemaMigrationID \notin last.hBefore /\ last.hBefore # {}
    /\ ~last.init

\* C8 (bootstrap with migrations): with initSchema registered, a catalog
\* that is not empty and an empty history, a successful Migrate() runs
\* initSchema and stores SCHEMA_INIT and every catalog identifier, while no
\* forward action of a catalog step is applied.
C8_BootstrapRecordsWithoutApplying ==
    (/\ last.op = "Migrate" /\ last.initSchemaSet /\ last.hBefore = {}
     /\ N > 0 /\ last.err = "nil") =>
        /\ last.init
        /\ hist = {initSchemaMigrationID} \cup CatalogIDs
        /\ Cardinality(hist) = N + 1
        /\ last.fwd = <<>>
        /\ eff \cap CatalogIDs = {}

C10_FailingMigrationLeavesNothing ==
    (last.op \in ForwardOps /\ last.err \in {"MigrateFailed", "panic"}) =>
        /\ last.err = "MigrateFailed"
        /\ catalog[last.fwd[Len(last.fwd)]].ID \notin hist
        /\ catalog[last.fwd[Len(last.fwd)]].ID \notin eff

\* What a call that returns from its validation leaves behind: no
\* transaction was opened, the table, the history and the effects are as
\* before, and neither initSchema nor any action of a step ran.
NothingTouched ==
    /\ ~last.began /\ tx = "nil"
    /\ tableExists = last.tableBefore
    /\ hist = last.hBefore /\ eff = last.effBefore
    /\ ~last.init /\ last.fwd = <<>> /\ last.inv = <<>>
    /\ last.comp = <<>> /\ last.rec = <<>>

\* C11 as claimed (unknown target): for every id that is not the identifier
\* of a catalog step, MigrateTo(id) and RollbackTo(id) return
\* ErrMigrationIDDoesNotExist and touch nothing.
C11_Original_UnknownTarget ==
    (last.op \in {"MigrateTo", "RollbackTo"} /\ last.arg \notin CatalogIDs) =>
        last.err = "ErrMigrationIDDoesNotExist" /\ NothingTouched

\* C11 (unknown target, amended): for every id that is not the identifier
\* of a catalog step, MigrateTo(id) and, on a catalog that is not empty,
\* RollbackTo(id) return ErrMigrationIDDoesNotExist and touch nothing;
\* RollbackTo on an empty catalog returns ErrNoMigrationDefined and
\* touches nothing.
C11_UnknownTarget ==
    (last.op \in {"MigrateTo", "RollbackTo"} /\ last.arg \notin CatalogIDs) =>
        /\ last.err = IF last.op = "RollbackTo" /\ N = 0
                      THEN "ErrNoMigrationDefined"
                      ELSE "ErrMigrationIDDoesNotExist"
        /\ NothingTouched

\* MigrateTo("") on a three-step catalog with steps still to apply.
C11_Witness ==
    /\ last.op = "MigrateTo" /\ last.arg = "" /\ N = 3
    /\ CatalogIDs \cap SpecialIDs = {}
    /\ hist # {} /\ ~(CatalogIDs \subseteq hist)
    /\ last.err = "ErrMigrationIDDoesNotExist"

\* The positions whose identifier is also the identifier of an earlier step,
\* and the identifiers that two steps share.
Repeats == {j \in 1..N : \E i \in 1..(j-1) : catalog[i].ID = catalog[j].ID}
SharedIDs == {catalog[j].ID : j \in Repeats}

\* C12 as claimed (duplicate detection): for every catalog in which two
\* steps share an identifier X, Migrate()/MigrateTo fails with
\* DuplicatedIDError for X and touches nothing.
C12_Original_DuplicateDetected ==
    (last.op \in ForwardOps) =>
        \A X \in SharedIDs :
            /\ last.err = "DuplicatedIDError" /\ last.errID = X
            /\ NothingTouched

\* C12 (duplicate detection, amended): for every catalog in which two steps
\* share an identifier and no step uses SCHEMA_INIT, Migrate() and
\* MigrateTo(id) for an id of the catalog fail with DuplicatedIDError for
\* the first identifier, in catalog order, that repeats an earlier one, and
\* touch nothing.
C12_DuplicateDetected ==
    (/\ last.op \in ForwardOps /\ SharedIDs # {}
     /\ initSchemaMigrationID \notin CatalogIDs
     /\ last.op = "MigrateTo" => last.arg \in CatalogIDs) =>
        /\ last.err = "DuplicatedIDError"
        /\ \E j \in Repeats :
              /\ \A k \in Repeats : j <= k
              /\ last.errID = catalog[j].ID
        /\ NothingTouched

\* Migrate() on the catalog [A, B, A].
C12_Witness ==
    /\ last.op = "Migrate" /\ N = 3
    /\ catalog[1].ID = "A" /\ catalog[2].ID = "B" /\ catalog[3].ID = "A"
    /\ last.err = "DuplicatedIDError" /\ last.errID = "A"

\* C13 (reserved identifier): for every catalog holding a step whose
\* identifier is SCHEMA_INIT, Migrate() fails with ReservedIDError for
\* SCHEMA_INIT before any transaction is opened and touches nothing.
C13_ReservedRejected ==
    (last.op = "Migrate" /\ initSchemaMigrationID \in CatalogIDs) =>
        /\ last.err = "ReservedIDError"
        /\ last.errID = initSchemaMigrationID
        /\ NothingTouched

\* Migrate() on a three-step catalog whose last step alone is SCHEMA_INIT.
C13_Witness ==
    /\ last.op = "Migrate" /\ N = 3
    /\ catalog[1].ID = "A" /\ catalog[2].ID = "B"
    /\ catalog[3].ID = initSchemaMigrationID
    /\ last.err = "ReservedIDError"

\* C14 (no steps defined): Migrate() returns ErrNoMigrationDefined exactly
\* when the catalog is empty and no initSchema is registered, and then
\* touches nothing; with an empty catalog and initSchema registered it
\* goes on to open its transaction; RollbackLast() on an empty catalog
\* returns ErrNoMigrationDefined and touches nothing.
C14_NoStepsDefined ==
    /\ last.op = "Migrate" =>
          /\ (last.err = "ErrNoMigrationDefined") <=> (N = 0 /\ ~last.initSchemaSet)
          /\ last.err = "ErrNoMigrationDefined" => NothingTouched
          /\ (N = 0 /\ last.initSchemaSet) => last.began
    /\ (last.op = "RollbackLast" /\ N = 0) =>
          last.err = "ErrNoMigrationDefined" /\ NothingTouched

\* Migrate() with an empty catalog and initSchema registered bootstraps.
C14_Witness ==
    /\ last.op = "Migrate" /\ N = 0 /\ last.initSchemaSet
    /\ last.err = "nil" /\ last.init /\ hist = {initSchemaMigrationID}

\* The position of the first step with an empty ID (0: there is none).
FirstEmpty == TargetPos("")

\* The steps an empty-ID step at position e is reached after: the forward
\* actions run by the call are those of the steps before e that were not
\* recorded, in catalog order.
RanUnappliedBefore(e) ==
    /\ Increasing(last.fwd)
    /\ {last.fwd[k] : k \in 1..Len(last.fwd)}
          = {i \in 1..(e - 1) : catalog[i].ID \notin last.hBefore}

\* What C15 says of a forward call that stops at position t.
MissingIDWhenReached(t) ==
    /\ last.err = "ErrMissingID" =>
          /\ last.began
          /\ FirstEmpty \in 1..t
          /\ RanUnappliedBefore(FirstEmpty)
    /\ (last.began /\ last.err = "nil") => FirstEmpty \notin 1..t

\* C15 (missing identifier timing): Migrate()/MigrateTo(id) fails with
\* ErrMissingID only when the walk reaches the step with the empty ID,
\* after the forward actions of the unapplied steps before it; an empty-ID
\* step declared after the target of MigrateTo is never reached; a call
\* that succeeds met no empty-ID step on its way.
C15_MissingIDWhenReached ==
    (last.op \in ForwardOps) =>
        MissingIDWhenReached(IF last.op = "MigrateTo" /\ last.arg # ""
                             THEN TargetPos(last.arg) ELSE N)

Decreasing(q) == \A a, b \in 1..Len(q) : a < b => q[a] > q[b]

\* The elements of a sequence.
Range(q) == {q[k] : k \in 1..Len(q)}

\* The position at which RollbackTo(id) stops: the last step with that ID.
StopPos(id) == CHOOSE i \in 1..N : catalog[i].ID = id /\ \A j \in (i+1)..N : catalog[j].ID # id

\* C16 (RollbackTo is exclusive of its target): a successful
\* RollbackTo(id) runs the inverse actions of exactly the steps declared
\* after id that were recorded, last first, deletes their rows and commits;
\* the rows of the target and of the steps before it (and SCHEMA_INIT)
\* stay, and their inverse actions do not run.
C16_RollbackToExclusive ==
    (last.op = "RollbackTo" /\ last.err = "nil") =>
        LET undone == {i \in (StopPos(last.arg) + 1)..N : catalog[i].ID \in last.hBefore}
        IN  /\ last.committed
            /\ Decreasing(last.inv)
            /\ Range(last.inv) = undone
            /\ hist = last.hBefore \ {catalog[i].ID : i \in undone}
            /\ eff = last.effBefore \ {catalog[i].ID : i \in undone}
            /\ last.fwd = <<>>

\* [A, B, C] all applied, RollbackTo(A): inverses of C then B, history {A}.
C16_Witness ==
    /\ last.op = "RollbackTo" /\ last.err = "nil" /\ N = 3
    /\ last.arg = "A" /\ StopPos("A") = 1
    /\ last.hBefore = {"A", "B", "C"} /\ last.effBefore = {"A", "B", "C"}
    /\ last.inv = <<3, 2>>
    /\ hist = {"A"} /\ eff = {"A"}

\* The positions of the steps recorded before the call reported.
RecordedBefore == {j \in 1..N : catalog[j].ID \in last.hBefore}

\* C17 (RollbackLast undoes exactly one step): a successful RollbackLast()
\* ran one inverse action, once, that of the recorded step with the
\* greatest catalog position; it deleted that step's row, left every other
\* row (SCHEMA_INIT too) as it was, and committed.
C17_RollbackLastUndoesOne ==
    (last.op = "RollbackLast" /\ last.err = "nil") =>
        /\ RecordedBefore # {}
        /\ \E i \in RecordedBefore :
              /\ \A j \in RecordedBefore : j <= i
              /\ last.inv = <<i>>
              /\ hist = last.hBefore \ {catalog[i].ID}
              /\ eff = last.effBefore \ {catalog[i].ID}
        /\ last.committed
        /\ last.fwd = <<>>

\* RollbackLast() after a bootstrap of [A, B, C]: C undone, the rest kept.
C17_Witness ==
    /\ last.op = "RollbackLast" /\ last.err = "nil" /\ N = 3
    /\ last.hBefore = {initSchemaMigrationID, "A", "B", "C"}
    /\ last.inv = <<3>>
    /\ hist = {initSchemaMigrationID, "A", "B"}

\* What a call that changes nothing leaves behind: the table, the history
\* and the effects are as before, no transaction is left open and no
\* action of a step ran.
NothingChanged ==
    /\ tx = "nil"
    /\ tableExists = last.tableBefore
    /\ hist = last.hBefore /\ eff = last.effBefore
    /\ ~last.init /\ last.fwd = <<>> /\ last.inv = <<>> /\ last.rec = <<>>

\* C18 (RollbackLast with nothing applied): on a catalog that is not
\* empty, whenever no catalog step is recorded (also when the migrations
\* table was never created), RollbackLast() fails with ErrNoRunMigration
\* and changes nothing.
C18_RollbackLastNothingApplied ==
    (last.op = "RollbackLast" /\ N > 0 /\ RecordedBefore = {}) =>
        last.err = "ErrNoRunMigration" /\ NothingChanged

RollbackOps == {"RollbackLast", "RollbackTo", "RollbackMigration"}

\* The positions of the recorded steps the call reported was to undo:
\* the last recorded step for RollbackLast, the recorded steps after the
\* target for RollbackTo.
ToUndo ==
    IF last.op = "RollbackLast"
    THEN {i \in RecordedBefore : \A j \in RecordedBefore : j <= i}
    ELSE IF last.op = "RollbackTo" /\ last.arg \in CatalogIDs
    THEN {i \in RecordedBefore : i > StopPos(last.arg)}
    ELSE {}

\* Those of them whose Rollback is nil.
NoInverse == {i \in ToUndo : ~catalog[i].hasRollback}

\* C19 (no inverse action): no inverse action ever runs for a step whose
\* Rollback is nil.  When RollbackLast()/RollbackTo(id) has such a step j
\* to undo, the call fails, no action ran for j or for a step before it,
\* and j's row stays; unless an inverse action failed before j was
\* reached the error is ErrRollbackImpossible, returned after the inverse
\* actions of the recorded steps after j.  RollbackMigration(m) for a
\* catalog step m whose Rollback is nil fails with ErrRollbackImpossible,
\* runs nothing and deletes nothing; a rollback call that returns
\* ErrRollbackImpossible deleted no row.
C19_NoInverseAction ==
    (last.op \in RollbackOps) =>
        /\ \A k \in 1..Len(last.inv) :
              last.inv[k] # 0 => catalog[last.inv[k]].hasRollback
        /\ \A j \in NoInverse :
              (\A i \in NoInverse : i <= j) =>
                  /\ last.err \in {"ErrRollbackImpossible", "RollbackFailed"}
                  /\ \A k \in 1..Len(last.inv) : last.inv[k] > j
                  /\ last.err = "ErrRollbackImpossible" =>
                        /\ Decreasing(last.inv)
                        /\ Range(last.inv) = {i \in ToUndo : i > j}
                  /\ catalog[j].ID \in hist
        /\ (/\ last.op = "RollbackMigration" /\ last.arg \in CatalogIDs
            /\ \A i \in 1..N : catalog[i].ID = last.arg => ~catalog[i].hasRollback) =>
              /\ last.err = "ErrRollbackImpossible"
              /\ last.inv = <<>>
        /\ last.err = "ErrRollbackImpossible" =>
              /\ hist = last.hBefore
              /\ (last.op = "RollbackMigration" =>
                     \E i \in 1..N : catalog[i].ID = last.arg /\ ~catalog[i].hasRollback)
              /\ (last.op # "RollbackMigration" => NoInverse # {})

\* RollbackTo(A) on [A, B, C] all recorded, B without Rollback: C's inverse
\* ran, then ErrRollbackImpossible; B's row is still there.
C19_Witness ==
    /\ last.op = "RollbackTo" /\ last.arg = "A" /\ N = 3
    /\ last.hBefore = {"A", "B", "C"}
    /\ ~catalog[2].hasRollback
    /\ last.err = "ErrRollbackImpossible"
    /\ last.inv = <<3>>
    /\ "B" \in hist

\* C20 (failure atomicity of rollback): whenever RollbackLast(),
\* RollbackTo(id) or RollbackMigration(m) returns an error, the history
\* after the call is the history before it, the effects in the database
\* are those before it (what the inverse actions run by the call did is
\* rolled back), and no transaction is left open.
C20_RollbackFailureAtomic ==
    (last.op \in RollbackOps /\ last.err # "nil") =>
        /\ hist = last.hBefore
        /\ eff = last.effBefore
        /\ tableExists = last.tableBefore
        /\ ~last.committed /\ tx = "nil"

\* RollbackTo(A) on [A, B, C] all applied: C's inverse ran, B's failed;
\* rows and effects of A, B and C are all still there.
C20_Witness ==
    /\ last.op = "RollbackTo" /\ last.arg = "A" /\ N = 3
    /\ last.err = "RollbackFailed" /\ last.inv = <<3, 2>>
    /\ last.hBefore = {"A", "B", "C"} /\ last.effBefore = {"A", "B", "C"}
    /\ hist = {"A", "B", "C"} /\ eff = {"A", "B", "C"}

\* The step whose forward action ran last in the call reported.
LastForward == last.fwd[Len(last.fwd)]

\* C21 (compensation is log-and-suppress): when the forward action of a
\* step that has a Rollback fails in Migrate()/MigrateTo(id), that step's
\* Rollback is called once, it is the only compensation of the call, and
\* whether it succeeds or fails the call returns the error of the forward
\* action; the transaction is then rolled back.
C21_CompensationSuppressed ==
    (/\ last.op \in ForwardOps /\ last.err \in {"MigrateFailed", "RollbackFailed", "panic"}
     /\ catalog[LastForward].hasRollback) =>
        /\ last.err = "MigrateFailed"
        /\ last.comp = <<LastForward>>
        /\ ~last.committed /\ tx = "nil"
        /\ eff = last.effBefore

\* B's forward action failed after A's ran, and B's compensating Rollback
\* failed too: the call still returned the forward error.
C21_Witness ==
    /\ last.op \in ForwardOps /\ N = 3 /\ last.fwd = <<1, 2>>
    /\ last.err = "MigrateFailed" /\ last.comp = <<2>> /\ last.compFailed

\* C22 (optional inverse on forward failure): when the forward action of a
\* step whose Rollback is nil fails in Migrate()/MigrateTo(id), the call
\* returns the error of the forward action (it does not panic), the
\* transaction is rolled back and no row is written for that step.
C22_NilRollbackOnForwardFailure ==
    (/\ last.op \in ForwardOps /\ last.err \in {"MigrateFailed", "panic"}
     /\ ~catalog[LastForward].hasRollback) =>
        /\ last.err = "MigrateFailed"
        /\ tx = "nil" /\ ~last.committed
        /\ catalog[LastForward].ID \notin hist
        /\ catalog[LastForward].ID \notin eff

ValidationErrors ==
    {"ErrNoMigrationDefined", "ErrMigrationIDDoesNotExist",
     "ReservedIDError", "DuplicatedIDError"}

\* C23 (transaction scope lifecycle): between top-level calls g.tx is nil;
\* a call that opened a transaction committed it when it returns nil and
\* rolled it back when it returns an error (or panics); a call that
\* returns a validation error opened none, and a call that opened none
\* committed nothing and returns an error.
C23_TxScopeLifecycle ==
    /\ tx = "nil"
    /\ last.op # "New" =>
          /\ last.began => (last.committed <=> last.err = "nil")
          /\ last.err \in ValidationErrors => ~last.began
          /\ ~last.began => (~last.committed /\ last.err \in ValidationErrors)

\* A Migrate() that panicked in the compensation of its second step after
\* opening a transaction: the deferred rollback released it.
C23_Witness ==
    /\ last.op = "Migrate" /\ last.began /\ last.err = "panic"
    /\ last.fwd = <<1, 2>> /\ ~last.committed /\ tx = "nil"

\* C24 (history access goes through the call's transaction): the rows a
\* call writes to the migrations table share the fate of its transaction:
\* a row inserted by the call is in the table afterwards exactly when the
\* call committed, and a call that did not commit leaves the table's rows
\* as they were.
C24_HistoryInTransaction ==
    (last.op # "New") =>
        /\ \A k \in 1..Len(last.rec) : (last.rec[k] \in hist) <=> last.committed
        /\ ~last.committed => hist = last.hBefore

\* C25 (bootstrap eligibility): a Migrate()/MigrateTo(id) that passes
\* validation calls initSchema exactly when initSchema is registered and
\* the migrations table holds no row at the time of the call (so no
\* SCHEMA_INIT row either), whatever the table held earlier.
C25_BootstrapEligibility ==
    (last.op \in ForwardOps /\ last.began) =>
        (last.init <=> (last.initSchemaSet /\ last.hBefore = {}))

\* A bootstrap on a history that held rows earlier and was emptied again
\* by rollbacks.
C25_Witness ==
    /\ last.op = "Migrate" /\ last.err = "nil" /\ N = 2
    /\ last.everBefore /\ last.tableBefore /\ last.hBefore = {}
    /\ last.init
    /\ hist = {initSchemaMigrationID, "A", "B"}

\* C26 (convergence): after a successful Migrate() every catalog
\* identifier is in the history; after a successful MigrateTo(id) the
\* identifier of every step up to and including id is in the history; and
\* no forward call, successful or not, removes a row that was there.
C26_Convergence ==
    /\ (last.op = "Migrate" /\ last.err = "nil") => CatalogIDs \subseteq hist
    /\ (last.op = "MigrateTo" /\ last.err = "nil") =>
          \A i \in 1..TargetPos(last.arg) : catalog[i].ID \in hist
    /\ last.op \in ForwardOps => last.hBefore \subseteq hist

\* MigrateTo(B) on [A, B, C] with A already recorded: B is recorded, C is not.
C26_Witness ==
    /\ last.op = "MigrateTo" /\ last.err = "nil" /\ N = 3
    /\ last.arg = "B" /\ TargetPos("B") = 2
    /\ last.hBefore = {"A"} /\ last.fwd = <<2>>
    /\ hist = {"A", "B"}

\* The rows of catalog steps a call inserted, in insertion order.
StepRows == SelectSeq(last.rec, LAMBDA id : id # initSchemaMigrationID)

C28_RollbackMigrationDirect ==
    (/\ last.op = "RollbackMigration"
     /\ \A i \in 1..N : catalog[i].ID = last.arg => catalog[i].hasRollback) =>
        /\ Len(last.inv) = 1
        /\ IF last.arg \in CatalogIDs
           THEN catalog[last.inv[1]].ID = last.arg
           ELSE last.inv[1] = 0
        /\ last.fwd = <<>> /\ last.rec = <<>>
        /\ last.err = "nil" =>
              /\ last.committed
              /\ hist = last.hBefore \ {last.arg}
              /\ eff = last.effBefore \ {last.arg}
        /\ last.tableBefore => last.err \in {"nil", "RollbackFailed"}

\* RollbackMigration of the first step of [A, B, C], all recorded.
C28_Witness ==
    /\ last.op = "RollbackMigration" /\ last.err = "nil" /\ N = 3
    /\ last.arg = "A" /\ last.inv = <<1>>
    /\ last.hBefore = {"A", "B", "C"} /\ hist = {"B", "C"}

\* C29 (failed bootstrap is fully rolled back): when, on the bootstrap
\* path, initSchema succeeded and its row was written but a catalog step
\* then failed, the call leaves neither the SCHEMA_INIT row nor a step row
\* in the history: the table is empty, so the next Migrate() would call
\* initSchema again.
C29_FailedBootstrapRolledBack ==
    (/\ last.op \in ForwardOps /\ last.init /\ last.err # "nil"
     /\ initSchemaMigrationID \in Range(last.rec)) =>
        /\ initSchemaMigrationID \notin hist
        /\ hist \cap CatalogIDs = {}
        /\ canInitializeSchema([hist |-> hist])

====
